---- MODULE Spec2Model ----
(***************************************************************************)
(* The price synchronisation engine of src/src/App.js (single-item        *)
(* strategy, p-queue dispatcher, localStorage cache) and of its variant    *)
(* src/unnamed/part_000 (bulk strategy).                                   *)
(*                                                                         *)
(* Time is in milliseconds, as Date.now() gives it.  The clock of the      *)
(* model starts (now = 0) when the catalog load settles; entries left in   *)
(* localStorage by an earlier session carry negative timestamps.           *)
(*                                                                         *)
(* A JavaScript object with integer-like keys iterates its keys in         *)
(* ascending numeric order, whatever the insertion order, so a catalog     *)
(* (item_id.txt, Object.fromEntries(makeboIds...)) is a set of ids and     *)
(* Object.entries of it is the ascending sequence of that set.             *)
(*                                                                         *)
(* Everything a handler does between two suspension points of the event    *)
(* loop (await of a network response, setTimeout) is one action: promise   *)
(* continuations are microtasks, no timer or response comes between them.  *)
(***************************************************************************)
EXTENDS Integers, Sequences, FiniteSets, TLC

(***************************************************************************)
(* Program constants.                                                      *)
(***************************************************************************)
\* App.js:28  CACHE_DURATION = 5 * 60 * 1000
CACHE_DURATION == 5 * 60 * 1000
\* App.js:286 setInterval(..., 300000)
TIMER_PERIOD == 300000
\* App.js:212 sleep(200)
SLEEP_MS == 200
\* App.js:138 interval: 1000
QUEUE_INTERVAL == 1000
\* part_000:175 chunks of 100 ids per bulk request
BULK_SIZE == 100

(***************************************************************************)
(* Sizes scaled down for checking.  The source has BATCH_SIZE = 2700       *)
(* (App.js:24), PARALLEL_BATCH_SIZE = 8 (App.js:26) and intervalCap = 25   *)
(* (App.js:139); the model keeps their order                                *)
(*   PARALLEL_BATCH_SIZE < BATCH_SIZE,                                      *)
(*   PARALLEL_BATCH_SIZE < INTERVAL_CAP < 4 * PARALLEL_BATCH_SIZE           *)
(* (8 < 2700, 8 < 25 < 32), so that a window holds several dispatch groups, *)
(* one group never exhausts the interval cap of its queue, and four groups  *)
(* do exceed it.                                                            *)
(***************************************************************************)
PARALLEL_BATCH_SIZE == 2
BATCH_SIZE == 3
INTERVAL_CAP == 6

(***************************************************************************)
(* Bounds of the model.                                                    *)
(***************************************************************************)
\* the catalog item_id.txt holds the ids 1..MaxItems
MaxItems == 7
\* fetchAllPrices is invoked at most MaxRuns times in a behaviour
MaxRuns == 2
\* at most MaxRequests ids are asked of the price service in a behaviour
MaxRequests == 3

NULL == "null"

Min(a, b) == IF a < b THEN a ELSE b

SetMin(S) == CHOOSE m \in S : \A x \in S : m <= x

Range(s) == {s[k] : k \in 1..Len(s)}

\* ceil(n / d) for n >= 0, d > 0
Ceil(n, d) == (n + d - 1) \div d

\* Array.prototype.slice(from, to) on a sequence, 0-based, `to` exclusive,
\* clamped to the length
Slice(s, from, to) == SubSeq(s, from + 1, Min(to, Len(s)))

\* Object.entries of an object with integer-like keys: ascending key order
RECURSIVE Entries(_)
Entries(S) ==
    IF S = {} THEN <<>>
    ELSE LET m == SetMin(S) IN <<m>> \o Entries(S \ {m})

\* Math.min(...listings.map(l => l.pricePerUnit)) of a non-empty list
MinPrice(listings) == SetMin(Range(listings))

\* itemData[id].ja
NameOf(id) == id

\* new Date().toLocaleString('ja-JP'): the time to the second
ToLocaleString(t) == t \div 1000

(***************************************************************************)
(* getBatchItems: the window batchNumber of the catalog.                   *)
(***************************************************************************)
getBatchItemsOverlapping(items, batchNumber) ==
    LET itemEntries == Entries(items)
        startIndex == batchNumber * BATCH_SIZE
    IN  Range(Slice(itemEntries, startIndex, startIndex + BATCH_SIZE + 1))
getBatchItems(items, batchNumber) ==
    LET itemEntries == Entries(items)
        startIndex == batchNumber * BATCH_SIZE
    IN  Range(Slice(itemEntries, startIndex, startIndex + BATCH_SIZE))

\* Math.ceil(Object.keys(itemData).length / BATCH_SIZE)
NumWindows(items) == Ceil(Cardinality(items), BATCH_SIZE)

(***************************************************************************)
(* The cache store (localStorage).  A stored value is a string; the model  *)
(* represents the string JSON.stringify({price, timestamp}) produces as    *)
(* the token sequence below, and any other stored string as CORRUPT.       *)
(***************************************************************************)
NONE == <<>>
CORRUPT == <<"{">>

\* JSON.stringify({price: payload, timestamp: t})
Stringify(payload, t) ==
    <<"price", payload.name, payload.price, payload.listingsCount, "timestamp", t>>

\* JSON.parse(cached) succeeds
Parses(str) == Len(str) = 6 /\ str[1] = "price" /\ str[5] = "timestamp"

\* const { price, timestamp } = JSON.parse(cached)
Parse(str) ==
    [price |-> [name |-> str[2], price |-> str[3], listingsCount |-> str[4]],
     timestamp |-> str[6]]

\* Date.now() - timestamp < CACHE_DURATION
FreshAtBoundary(timestamp, t) == t - timestamp <= CACHE_DURATION
Fresh(timestamp, t) == t - timestamp < CACHE_DURATION

(***************************************************************************)
(* getPriceFromCache(id) at time t on store c: what it returns (ret, NULL  *)
(* for null), whether it threw (JSON.parse of an unparseable string) and   *)
(* whether it removed the key; hit says that ret is a payload.             *)
(***************************************************************************)
getPriceFromCache(c, id, t) ==
    LET cached == c[id] IN
    IF cached = NONE
    THEN [hit |-> FALSE, ret |-> NULL, threw |-> FALSE, removed |-> FALSE]
    ELSE IF ~Parses(cached)
    THEN [hit |-> FALSE, ret |-> NULL, threw |-> TRUE, removed |-> FALSE]
    ELSE IF Fresh(Parse(cached).timestamp, t)
    THEN [hit |-> TRUE, ret |-> Parse(cached).price, threw |-> FALSE, removed |-> FALSE]
    ELSE [hit |-> FALSE, ret |-> NULL, threw |-> FALSE, removed |-> TRUE]

\* cachePriceData(id, price) at time t
cachePriceData(c, id, price, t) == [c EXCEPT ![id] = Stringify(price, t)]

\* a valid (non-expired) entry is stored for id at time t
ValidEntry(c, id, t) ==
    /\ Parses(c[id])
    /\ t - Parse(c[id]).timestamp < CACHE_DURATION

\* localStorage after getPriceFromCache(id) for every id of ids
AfterReadsRefreshing(c, ids, t) ==
    [id \in DOMAIN c |->
        IF id \in ids /\ getPriceFromCache(c, id, t).removed THEN NONE
        ELSE IF id \in ids /\ getPriceFromCache(c, id, t).hit
        THEN Stringify(Parse(c[id]).price, t)
        ELSE c[id]]
AfterReads(c, ids, t) ==
    [id \in DOMAIN c |->
        IF id \in ids /\ getPriceFromCache(c, id, t).removed THEN NONE ELSE c[id]]

\* { id, ...cachedPrice }
WithId(id, payload) ==
    [id |-> id, name |-> payload.name, price |-> payload.price,
     listingsCount |-> payload.listingsCount]

(***************************************************************************)
(* The price service.  A response is a network error (fetch rejects), a    *)
(* non-2xx status, or a 2xx body with its listings (their pricePerUnit);   *)
(* an absent `listings` behaves as the empty list.                         *)
(***************************************************************************)
ListingChoices == {<<>>, <<2>>, <<2, 1>>}

Responses ==
    {[kind |-> "neterr", listings |-> <<>>], [kind |-> "http", listings |-> <<>>]}
    \cup {[kind |-> "ok", listings |-> l] : l \in ListingChoices}

\* the payload fetchSinglePrice / fetchPricesBulk build from a body with listings
PayloadOf(id, listings) ==
    [name |-> NameOf(id), price |-> MinPrice(listings), listingsCount |-> Len(listings)]

\* fetchSinglePrice(id) after the response: it throws, returns null, or
\* caches and returns a record
HasRecord(resp) == resp.kind = "ok" /\ Len(resp.listings) > 0
Throws(resp) == resp.kind \in {"neterr", "http"}

(***************************************************************************)
(* prices.sort((a, b) => b.price - a.price): Array.prototype.sort is       *)
(* stable, records of equal price keep their order in the array.           *)
(***************************************************************************)
InsertDescAscending(rec, sorted) ==
    LET before == {k \in 1..Len(sorted) : sorted[k].price <= rec.price}
        n == Cardinality(before)
    IN  SubSeq(sorted, 1, n) \o <<rec>> \o SubSeq(sorted, n + 1, Len(sorted))
InsertDesc(rec, sorted) ==
    LET before == {k \in 1..Len(sorted) : sorted[k].price >= rec.price}
        n == Cardinality(before)
    IN  SubSeq(sorted, 1, n) \o <<rec>> \o SubSeq(sorted, n + 1, Len(sorted))

RECURSIVE SortDesc(_)
SortDesc(s) ==
    IF s = <<>> THEN <<>>
    ELSE InsertDesc(s[Len(s)], SortDesc(SubSeq(s, 1, Len(s) - 1)))

(***************************************************************************)
(* State.                                                                  *)
(***************************************************************************)
VARIABLES
    now,               \* Date.now()
    itemData,          \* useState(null): <<>> for null, <<catalog>> once loaded
    filteredItemData,  \* useState(null): <<>> for null, <<ids>> once loaded
    currentBatch,      \* useState(0)
    timerBatch,        \* the currentBatch the setInterval callback closed over
    nextTimer,         \* when the interval fires next
    loading,           \* useState(false)
    error,             \* useState(null)
    priceData,         \* useState([])
    lastUpdated,       \* useState(null): <<>> for null, <<string>> once set
    cache,             \* localStorage: id -> stored string of key price_<id>
    runs,              \* the invocations of fetchAllPrices, in the order started
    requested,         \* how many ids have been asked of the price service
    written,           \* per id: <<the {price, timestamp} cachePriceData stored>>
    lastRecord,        \* per id: <<when a response last produced a record>>
    lastResponse,      \* per id: <<when a request last settled>>
    ev                 \* what the last step did (observation only)

vars == <<now, itemData, filteredItemData, currentBatch, timerBatch, nextTimer,
          loading, error, priceData, lastUpdated, cache, runs, requested,
          written, lastRecord, lastResponse, ev>>

Ids == 1..MaxItems
RunIds == DOMAIN runs

\* one invocation of fetchAllPrices: its locals, those of the fetchPriceBatch
\* it awaits, and the task starts of the last QUEUE_INTERVAL ms
\* (observation only: tasked, the ids handed to a task of the run so far,
\* and got, the records the resolutions of the run have produced)
NoRun ==
    [pc |-> "none", entries |-> <<>>, i |-> 0, prices |-> <<>>, results |-> <<>>,
     inflight |-> {}, failed |-> {}, empty |-> {}, wake |-> 0, starts |-> <<>>,
     tasked |-> {}, got |-> {}]

NoEv ==
    [kind |-> "time", run |-> 0, reads |-> {}, reqs |-> {}, drained |-> FALSE,
     group |-> <<>>, batch |-> <<>>, failed |-> {}, empty |-> {}, winStarts |-> 0,
     prevBatch |-> 0,
     \* the group a step dispatched, and the ids among them that an earlier
     \* group of the run had already handed to a task
     sent |-> <<>>, again |-> {},
     \* at a drain: the index of the group, whether it is the last one of the
     \* run, the tasks still pending, the ids handed to tasks so far, the
     \* target of the run and the records the run has collected
     idx |-> 0, last |-> FALSE, pending |-> {}, tasked |-> {}, target |-> <<>>,
     collected |-> <<>>, got |-> {},
     \* the step published a snapshot
     published |-> FALSE,
     \* the responses the step handled (id, kind) and the ids whose record a
     \* task pushed to results
     answers |-> {}, pushed |-> {},
     \* the body of the bulk response the step handled: <<>> or <<response>>
     body |-> <<>>,
     \* a window of the catalog: its index (also the index a tick or a refresh
     \* handed to getBatchItems), its entries, the entries of the windows
     \* up to it
     index |-> 0, window |-> <<>>, walked |-> <<>>]

Active(r) == runs[r].pc \in {"dispatch", "sleep"}

\* Math.ceil(entries.length / PARALLEL_BATCH_SIZE)
TotalBatches(rec) == Ceil(Len(rec.entries), PARALLEL_BATCH_SIZE)

\* entries.slice(i * PARALLEL_BATCH_SIZE, (i + 1) * PARALLEL_BATCH_SIZE)
GroupOfOverlapping(rec) ==
    Slice(rec.entries, rec.i * PARALLEL_BATCH_SIZE, (rec.i + 1) * PARALLEL_BATCH_SIZE + 1)
GroupOf(rec) ==
    Slice(rec.entries, rec.i * PARALLEL_BATCH_SIZE, (rec.i + 1) * PARALLEL_BATCH_SIZE)

\* the task starts of the run in the interval (t - QUEUE_INTERVAL, t]
RecentStarts(starts, t) ==
    LET Recent(e) == e.t > t - QUEUE_INTERVAL IN SelectSeq(starts, Recent)

RECURSIVE SumStarts(_)
SumStarts(starts) ==
    IF starts = <<>> THEN 0 ELSE starts[1].n + SumStarts(Tail(starts))

(***************************************************************************)
(* fetchPriceBatch (App.js) up to `await queue.onIdle()`: a new PQueue,    *)
(* and one task per id.  queue.add starts a task at once while fewer than  *)
(* `concurrency` are pending and fewer than `intervalCap` were started in  *)
(* the interval; a group holds at most PARALLEL_BATCH_SIZE ids, so every   *)
(* task of the group starts here.  A started task runs fetchSinglePrice to *)
(* its first await: the cache read, and on a miss the request.             *)
(***************************************************************************)
DispatchSingle(rec, c, t) ==
    LET group == GroupOf(rec)
        ids == Range(group)
        got(id) == getPriceFromCache(c, id, t)
        IsHit(id) == got(id).hit
        hits == SelectSeq(group, IsHit)
        threw == {id \in ids : got(id).threw}
        asked == {id \in ids : ~got(id).hit /\ ~got(id).threw}
        starts == RecentStarts(rec.starts, t) \o <<[t |-> t, n |-> Len(group)]>>
    IN  [rec |-> [rec EXCEPT !.pc = "dispatch",
                             !.results = [k \in 1..Len(hits) |-> WithId(hits[k], got(hits[k]).ret)],
                             !.inflight = asked,
                             !.failed = threw,
                             !.empty = {},
                             !.starts = starts,
                             !.tasked = @ \cup ids,
                             !.got = @ \cup {WithId(id, got(id).ret) : id \in {x \in ids : got(x).hit}}],
         cache |-> AfterReads(c, ids, t),
         sent |-> group,
         again |-> rec.tasked \cap ids,
         reads |-> {[id |-> id, entry |-> c[id], was |-> written[id], got |-> got(id)]
                    : id \in ids},
         reqs |-> {[ids |-> {id}, fresh |-> {x \in {id} : ValidEntry(c, x, t)}]
                   : id \in asked},
         winStarts |-> SumStarts(starts)]

(***************************************************************************)
(* fetchPriceBatch (part_000) up to `await queue.onIdle()`: the ids of the *)
(* group in chunks of 100, one task per chunk, each task one bulk request  *)
(* (fetchPricesBulk); the cache is not read.                               *)
(***************************************************************************)
DispatchBulk(rec, c, t) ==
    LET group == GroupOf(rec)
        ids == Range(group)
        nchunks == Ceil(Len(group), BULK_SIZE)
        chunk(k) == Range(Slice(group, (k - 1) * BULK_SIZE, k * BULK_SIZE))
        starts == RecentStarts(rec.starts, t) \o <<[t |-> t, n |-> nchunks]>>
    IN  [rec |-> [rec EXCEPT !.pc = "dispatch",
                             !.results = <<>>,
                             !.inflight = ids,
                             !.failed = {},
                             !.empty = {},
                             !.starts = starts,
                             !.tasked = @ \cup ids],
         cache |-> c,
         sent |-> group,
         again |-> rec.tasked \cap ids,
         reads |-> {},
         reqs |-> {[ids |-> chunk(k), fresh |-> {id \in chunk(k) : ValidEntry(c, id, t)}]
                   : k \in 1..nchunks},
         winStarts |-> SumStarts(starts)]

Dispatch(bulk, rec, c, t) ==
    IF bulk THEN DispatchBulk(rec, c, t) ELSE DispatchSingle(rec, c, t)

\* the requests of a dispatch go out
Ask(reqs) == requested' = requested + Cardinality(UNION {q.ids : q \in reqs})

\* the bound of the model on the requests of a behaviour
Capped == requested' <= MaxRequests

(***************************************************************************)
(* fetchAllPrices after `await fetchPriceBatch(batchItems)`: the valid     *)
(* results join prices; then sleep(200) before the next group, or, after   *)
(* the last one, the sort.                                                 *)
(***************************************************************************)
AfterBatchAborting(rec, t) ==
    LET Valid(result) == TRUE
        validResults == SelectSeq(rec.results, Valid)
        prices == rec.prices \o validResults
    IN  IF rec.failed \cup rec.empty # {}
        THEN [NoRun EXCEPT !.pc = "failed"]
        ELSE IF rec.i < TotalBatches(rec) - 1
        THEN [rec EXCEPT !.pc = "sleep", !.prices = prices, !.results = <<>>,
                         !.inflight = {}, !.failed = {}, !.empty = {},
                         !.wake = t + SLEEP_MS]
        ELSE [NoRun EXCEPT !.pc = "done", !.prices = SortDesc(prices)]
AfterBatchPartial(rec, t) ==
    LET Valid(result) == TRUE
        validResults == SelectSeq(rec.results, Valid)
        prices == rec.prices \o validResults
    IN  [NoRun EXCEPT !.pc = "done", !.prices = SortDesc(prices)]
AfterBatch(rec, t) ==
    LET Valid(result) == TRUE   \* result && !result.error: no record has .error
        validResults == SelectSeq(rec.results, Valid)
        prices == rec.prices \o validResults
    IN  IF rec.i < TotalBatches(rec) - 1
        THEN [rec EXCEPT !.pc = "sleep", !.prices = prices, !.results = <<>>,
                         !.inflight = {}, !.failed = {}, !.empty = {},
                         !.wake = t + SLEEP_MS]
        ELSE [NoRun EXCEPT !.pc = "done", !.prices = SortDesc(prices)]

(***************************************************************************)
(* What follows a step of run r in the same turn of the event loop: when   *)
(* no task of the group is pending, queue.onIdle() resolves and            *)
(* fetchAllPrices goes on (AfterBatch); after the last group it publishes: *)
(* setPriceData(sortedPrices), setLastUpdated(...), and in the finally     *)
(* block setLoading(false).  ld is the loading flag the step had set.      *)
(***************************************************************************)
SettleEarly(base, r, rec, c, e, ld) ==
    LET drained == rec.pc = "dispatch"
        rec1 == IF drained THEN AfterBatch(rec, now) ELSE rec
        e1 == IF drained
              THEN [e EXCEPT !.drained = TRUE, !.group = GroupOf(rec),
                             !.batch = rec.results, !.failed = rec.failed,
                             !.empty = rec.empty,
                             !.idx = rec.i, !.last = (rec.i = TotalBatches(rec) - 1),
                             !.pending = rec.inflight, !.tasked = rec.tasked,
                             !.target = rec.entries,
                             !.collected = rec.prices \o rec.results,
                             !.got = rec.got]
              ELSE e
    IN  /\ runs' = [base EXCEPT ![r] = IF rec1.pc = "done"
                                       THEN [NoRun EXCEPT !.pc = "done"] ELSE rec1]
        /\ cache' = c
        /\ ev' = [e1 EXCEPT !.published = (rec1.pc = "done")]
        /\ IF rec1.pc = "done"
           THEN /\ priceData' = rec1.prices
                /\ lastUpdated' = <<ToLocaleString(now)>>
                /\ loading' = FALSE
           ELSE /\ UNCHANGED <<priceData, lastUpdated>>
                /\ loading' = ld
Settle(base, r, rec, c, e, ld) ==
    LET drained == rec.pc = "dispatch" /\ rec.inflight = {}
        rec1 == IF drained THEN AfterBatch(rec, now) ELSE rec
        e1 == IF drained
              THEN [e EXCEPT !.drained = TRUE, !.group = GroupOf(rec),
                             !.batch = rec.results, !.failed = rec.failed,
                             !.empty = rec.empty,
                             !.idx = rec.i, !.last = (rec.i = TotalBatches(rec) - 1),
                             !.pending = rec.inflight, !.tasked = rec.tasked,
                             !.target = rec.entries,
                             !.collected = rec.prices \o rec.results,
                             !.got = rec.got]
              ELSE e
    IN  /\ runs' = [base EXCEPT ![r] = IF rec1.pc = "done"
                                       THEN [NoRun EXCEPT !.pc = "done"] ELSE rec1]
        /\ cache' = c
        /\ ev' = [e1 EXCEPT !.published = (rec1.pc = "done")]
        /\ IF rec1.pc = "done"
           THEN /\ priceData' = rec1.prices
                /\ lastUpdated' = <<ToLocaleString(now)>>
                /\ loading' = FALSE
           ELSE /\ UNCHANGED <<priceData, lastUpdated>>
                /\ loading' = ld

(***************************************************************************)
(* fetchAllPrices(items) up to its first suspension: setLoading(true),     *)
(* setError(null), and the first group dispatched; with no entries the     *)
(* loop body never runs and the empty result is published at once.         *)
(***************************************************************************)
fetchAllPrices(bulk, items, e) ==
    LET r == Len(runs) + 1
        base == Append(runs, NoRun)
        rec0 == [NoRun EXCEPT !.entries = Entries(items)]
        d == Dispatch(bulk, rec0, cache, now)
    IN  /\ error' = NULL
        /\ IF TotalBatches(rec0) = 0
           THEN /\ Settle(base, r, [NoRun EXCEPT !.pc = "done"], cache,
                          [e EXCEPT !.run = r], TRUE)
                /\ UNCHANGED requested
           ELSE /\ Settle(base, r, d.rec, d.cache,
                          [e EXCEPT !.run = r, !.reads = d.reads, !.reqs = d.reqs,
                                    !.winStarts = d.winStarts, !.sent = d.sent,
                                    !.again = d.again], TRUE)
                /\ Ask(d.reqs)

(***************************************************************************)
(* The mount effect: item_id.txt and makebo_item_id.txt are loaded; then   *)
(* the effect on [itemData, filteredItemData] starts the first run and the *)
(* effect on [itemData] sets the interval anew, its callback closing over  *)
(* the currentBatch of this render.                                        *)
(***************************************************************************)
Load(bulk, itemNameData, makeboIds) ==
    /\ itemData = <<>> /\ error = NULL
    /\ itemData' = <<itemNameData>>
    /\ filteredItemData' = <<makeboIds>>
    /\ timerBatch' = currentBatch
    /\ nextTimer' = now + TIMER_PERIOD
    /\ fetchAllPrices(bulk, makeboIds, [NoEv EXCEPT !.kind = "load"])
    /\ UNCHANGED <<now, currentBatch, written, lastRecord, lastResponse>>

\* .catch(error => setError(...)): a catalog file is unreachable or unparseable
LoadFailStamping ==
    /\ itemData = <<>> /\ error = NULL
    /\ error' = "load"
    /\ lastUpdated' = <<ToLocaleString(now)>>
    /\ ev' = [NoEv EXCEPT !.kind = "loadfail"]
    /\ UNCHANGED <<now, itemData, filteredItemData, currentBatch, timerBatch, nextTimer,
                   loading, priceData, cache, runs, requested,
                   written, lastRecord, lastResponse>>
LoadFail ==
    /\ itemData = <<>> /\ error = NULL
    /\ error' = "load"
    /\ ev' = [NoEv EXCEPT !.kind = "loadfail"]
    /\ UNCHANGED <<now, itemData, filteredItemData, currentBatch, timerBatch, nextTimer,
                   loading, priceData, lastUpdated, cache, runs, requested,
                   written, lastRecord, lastResponse>>

(***************************************************************************)
(* The setInterval callback of App.js / part_000 (effect deps [itemData]); *)
(* while itemData is null it does nothing.                                 *)
(***************************************************************************)
TimerNoWrap(bulk) ==
    /\ now >= nextTimer
    /\ nextTimer' = now + TIMER_PERIOD
    /\ IF itemData = <<>>
       THEN /\ ev' = [NoEv EXCEPT !.kind = "idle"]
            /\ UNCHANGED <<currentBatch, loading, error, priceData, lastUpdated, cache,
                           runs, requested>>
       ELSE LET nextBatch == timerBatch + 1
                batchItems == getBatchItems(itemData[1], nextBatch)
            IN  /\ currentBatch' = nextBatch
                /\ fetchAllPrices(bulk, batchItems,
                                  [NoEv EXCEPT !.kind = "timer", !.prevBatch = currentBatch,
                                               !.index = nextBatch])
    /\ UNCHANGED <<now, itemData, filteredItemData, timerBatch, written, lastRecord, lastResponse>>
Timer(bulk) ==
    /\ now >= nextTimer
    /\ nextTimer' = now + TIMER_PERIOD
    /\ IF itemData = <<>>
       THEN /\ ev' = [NoEv EXCEPT !.kind = "idle"]
            /\ UNCHANGED <<currentBatch, loading, error, priceData, lastUpdated, cache,
                           runs, requested>>
       ELSE LET nextBatch == (timerBatch + 1) % NumWindows(itemData[1])
                batchItems == getBatchItems(itemData[1], nextBatch)
            IN  /\ currentBatch' = nextBatch
                /\ fetchAllPrices(bulk, batchItems,
                                  [NoEv EXCEPT !.kind = "timer", !.prevBatch = currentBatch,
                                               !.index = nextBatch])
    /\ UNCHANGED <<now, itemData, filteredItemData, timerBatch, written, lastRecord, lastResponse>>

(***************************************************************************)
(* handleRefresh, reached through the button, which is disabled while      *)
(* loading is true; while itemData is null it does nothing.                *)
(***************************************************************************)
Refresh(bulk) ==
    /\ ~loading
    /\ IF itemData = <<>>
       THEN /\ ev' = [NoEv EXCEPT !.kind = "idle"]
            /\ UNCHANGED <<loading, error, priceData, lastUpdated, cache, runs, requested>>
       ELSE fetchAllPrices(bulk, getBatchItems(itemData[1], currentBatch),
                           [NoEv EXCEPT !.kind = "refresh", !.index = currentBatch])
    /\ UNCHANGED <<now, itemData, filteredItemData, currentBatch, timerBatch, nextTimer,
                   written, lastRecord, lastResponse>>

\* sleep(200) is over: the loop of fetchAllPrices dispatches the next group
WakeRun(bulk, r) ==
    /\ runs[r].pc = "sleep"
    /\ now >= runs[r].wake
    /\ LET d == Dispatch(bulk, [runs[r] EXCEPT !.i = @ + 1], cache, now)
       IN  /\ Settle(runs, r, d.rec, d.cache,
                     [NoEv EXCEPT !.kind = "wake", !.run = r, !.reads = d.reads,
                                  !.reqs = d.reqs, !.winStarts = d.winStarts,
                                  !.sent = d.sent, !.again = d.again], loading)
           /\ Ask(d.reqs)
    /\ UNCHANGED <<now, itemData, filteredItemData, currentBatch, timerBatch, nextTimer,
                   error, written, lastRecord, lastResponse>>

(***************************************************************************)
(* The task of fetchPriceBatch (App.js) once the response to its request   *)
(* is in: fetchSinglePrice throws (fetch rejected, or !response.ok), and   *)
(* the catch of the task logs it; or it returns null (no listings); or it  *)
(* returns the record, which the task pushes to results.                   *)
(***************************************************************************)
TaskDoneHanging(rec, id, resp) ==
    [rec EXCEPT !.results = IF HasRecord(resp)
                            THEN Append(@, WithId(id, PayloadOf(id, resp.listings)))
                            ELSE @]
TaskDoneLosing(rec, id, resp) ==
    [rec EXCEPT !.inflight = @ \ {id},
                !.results = IF HasRecord(resp)
                            THEN Append(@, WithId(id, PayloadOf(id, resp.listings)))
                            ELSE IF Throws(resp) THEN <<>> ELSE @]
TaskDone(rec, id, resp) ==
    [rec EXCEPT !.inflight = @ \ {id},
                !.results = IF HasRecord(resp)
                            THEN Append(@, WithId(id, PayloadOf(id, resp.listings)))
                            ELSE @]

\* fetchSinglePrice after the response: the cache write of a record
CacheAfterFetchNoWrite(c, id, resp, t) == c
CacheAfterFetch(c, id, resp, t) ==
    IF HasRecord(resp) THEN cachePriceData(c, id, PayloadOf(id, resp.listings), t) ELSE c

\* observation: how the fetches of the group went
Outcome(rec, id, resp) ==
    [rec EXCEPT !.failed = IF Throws(resp) THEN @ \cup {id} ELSE @,
                !.empty = IF ~Throws(resp) /\ ~HasRecord(resp) THEN @ \cup {id} ELSE @,
                !.got = IF HasRecord(resp)
                        THEN @ \cup {WithId(id, PayloadOf(id, resp.listings))} ELSE @]

\* observation: what kind of answer a response is for an id
AnswerKind(resp) ==
    IF resp.kind # "ok" THEN resp.kind
    ELSE IF HasRecord(resp) THEN "record" ELSE "empty"

\* observation: the ids of the records a task added to results
Pushed(before, after) ==
    {after.results[k].id : k \in (Len(before.results) + 1)..Len(after.results)}

Complete(r, id, resp) ==
    /\ runs[r].pc = "dispatch"
    /\ id \in runs[r].inflight
    /\ lastResponse' = [lastResponse EXCEPT ![id] = <<now>>]
    /\ lastRecord' = IF HasRecord(resp) THEN [lastRecord EXCEPT ![id] = <<now>>]
                     ELSE lastRecord
    /\ written' = IF HasRecord(resp)
                  THEN [written EXCEPT ![id] = <<[price |-> PayloadOf(id, resp.listings),
                                                  timestamp |-> now]>>]
                  ELSE written
    /\ Settle(runs, r, Outcome(TaskDone(runs[r], id, resp), id, resp),
              CacheAfterFetch(cache, id, resp, now),
              [NoEv EXCEPT !.kind = "response", !.run = r,
                           !.answers = {[id |-> id, kind |-> AnswerKind(resp)]},
                           !.pushed = Pushed(runs[r], TaskDone(runs[r], id, resp))],
              loading)
    /\ UNCHANGED <<now, itemData, filteredItemData, currentBatch, timerBatch, nextTimer,
                   error, requested>>

(***************************************************************************)
(* The task of fetchPriceBatch (part_000) once the response to its bulk    *)
(* request is in: fetchPricesBulk throws, or walks the requested ids in    *)
(* order and, for each id present in data.items with listings, caches and  *)
(* collects its record; the task pushes them to results.                   *)
(***************************************************************************)
\* A 2xx body is the mapping { items: { id: { listings } } } (kind "ok").
\* The URL of a request for one id is the URL fetchSinglePrice asks
\* (part_000:86), whose body has its listings at the top level and no
\* `items` (part_000:94): such a body may come back for a one-id request
\* (kind "one", its listings kept under the id).
BulkResponses(ids) ==
    {[kind |-> "neterr", items |-> <<>>], [kind |-> "http", items |-> <<>>]}
    \cup {[kind |-> "ok", items |-> f] :
            f \in UNION {[S -> ListingChoices] : S \in SUBSET ids}}
    \cup {[kind |-> "one", items |-> f] :
            f \in UNION {[S -> ListingChoices] : S \in {T \in {ids} : Cardinality(T) = 1}}}

\* fetchPricesBulk throws: fetch rejected, !response.ok, or data.items is
\* undefined and data.items[id] a TypeError
BulkThrows(resp) == Throws(resp) \/ resp.kind = "one"

\* item && item.listings && item.listings.length > 0
BulkHas(resp, id) ==
    resp.kind = "ok" /\ id \in DOMAIN resp.items /\ Len(resp.items[id]) > 0

fetchPricesBulk(ids, resp) ==
    LET Has(id) == BulkHas(resp, id)
        found == SelectSeq(ids, Has)
    IN  [k \in 1..Len(found) |-> WithId(found[k], PayloadOf(found[k], resp.items[found[k]]))]

BulkDone(rec, resp) ==
    [rec EXCEPT !.inflight = {},
                !.results = @ \o fetchPricesBulk(GroupOf(rec), resp)]

\* observation: how the bulk fetch of the group went
BulkOutcome(rec, ids, resp) ==
    [rec EXCEPT !.failed = IF BulkThrows(resp) THEN ids ELSE {},
                !.empty = IF BulkThrows(resp) THEN {} ELSE {id \in ids : ~BulkHas(resp, id)},
                !.got = @ \cup {WithId(id, PayloadOf(id, resp.items[id]))
                                : id \in {x \in ids : BulkHas(resp, x)}}]

CacheAfterBulk(c, ids, resp, t) ==
    [id \in DOMAIN c |->
        IF id \in ids /\ BulkHas(resp, id)
        THEN Stringify(PayloadOf(id, resp.items[id]), t) ELSE c[id]]

\* observation: what kind of answer a bulk response is for an id
BulkAnswerKind(resp, id) ==
    IF resp.kind # "ok" THEN resp.kind
    ELSE IF BulkHas(resp, id) THEN "record" ELSE "empty"

CompleteBulk(r, resp) ==
    LET ids == runs[r].inflight IN
    /\ runs[r].pc = "dispatch"
    /\ ids # {}
    /\ lastResponse' = [id \in Ids |-> IF id \in ids THEN <<now>> ELSE lastResponse[id]]
    /\ lastRecord' = [id \in Ids |-> IF id \in ids /\ BulkHas(resp, id)
                                     THEN <<now>> ELSE lastRecord[id]]
    /\ written' = [id \in Ids |-> IF id \in ids /\ BulkHas(resp, id)
                                  THEN <<[price |-> PayloadOf(id, resp.items[id]),
                                          timestamp |-> now]>>
                                  ELSE written[id]]
    /\ Settle(runs, r, BulkOutcome(BulkDone(runs[r], resp), ids, resp),
              CacheAfterBulk(cache, ids, resp, now),
              [NoEv EXCEPT !.kind = "response", !.run = r,
                           !.answers = {[id |-> id, kind |-> BulkAnswerKind(resp, id)]
                                        : id \in ids},
                           !.body = <<resp>>,
                           !.pushed = Pushed(runs[r], BulkDone(runs[r], resp))],
              loading)
    /\ UNCHANGED <<now, itemData, filteredItemData, currentBatch, timerBatch, nextTimer,
                   error, requested>>

(***************************************************************************)
(* part_001: the sequential variant.  fetchAllPrices asks for the ids of   *)
(* its window one after the other, awaiting each response; there is no     *)
(* cache, no queue and no pause, a record is {id, name, price}.  The       *)
(* interval effect depends on [itemData, currentBatch]: every render that  *)
(* changes one of them sets the interval anew, and the callback closes     *)
(* over the currentBatch of that render.                                   *)
(***************************************************************************)
SEQ_TIMER_PERIOD == 3600000

\* the for loop of fetchAllPrices from entry rec.i on, up to the next await:
\* the request for the next id, or after the last id the sort and the
\* publication
StepSeq(base, r, rec, e, ld) ==
    IF rec.i < Len(rec.entries)
    THEN LET id == rec.entries[rec.i + 1]
         IN  /\ runs' = [base EXCEPT ![r] = [rec EXCEPT !.pc = "dispatch",
                                                        !.inflight = {id},
                                                        !.tasked = @ \cup {id}]]
             /\ requested' = requested + 1
             /\ loading' = ld
             /\ ev' = [e EXCEPT !.reqs = {[ids |-> {id}, fresh |-> {}]},
                                !.sent = <<id>>]
             /\ UNCHANGED <<priceData, lastUpdated>>
    ELSE /\ runs' = [base EXCEPT ![r] = [NoRun EXCEPT !.pc = "done"]]
         /\ priceData' = SortDesc(rec.prices)
         /\ lastUpdated' = <<ToLocaleString(now)>>
         /\ loading' = FALSE
         /\ ev' = [e EXCEPT !.published = TRUE, !.target = rec.entries]
         /\ UNCHANGED requested

\* fetchAllPrices(items) up to its first await
fetchAllPricesSeq(items, e) ==
    LET r == Len(runs) + 1
        rec0 == [NoRun EXCEPT !.entries = Entries(items)]
    IN  /\ error' = NULL
        /\ StepSeq(Append(runs, NoRun), r, rec0, [e EXCEPT !.run = r], TRUE)

\* the mount effect: setItemData(data), fetchAllPrices(getBatchItems(data, 0))
LoadSeq(data) ==
    /\ itemData = <<>> /\ error = NULL
    /\ itemData' = <<data>>
    /\ timerBatch' = currentBatch
    /\ nextTimer' = now + SEQ_TIMER_PERIOD
    /\ fetchAllPricesSeq(getBatchItems(data, 0), [NoEv EXCEPT !.kind = "load"])
    /\ UNCHANGED <<now, filteredItemData, currentBatch, cache,
                   written, lastRecord, lastResponse>>

\* the setInterval callback
TimerSeq ==
    /\ now >= nextTimer
    /\ nextTimer' = now + SEQ_TIMER_PERIOD
    /\ IF itemData = <<>>
       THEN /\ ev' = [NoEv EXCEPT !.kind = "idle"]
            /\ UNCHANGED <<currentBatch, timerBatch, loading, error, priceData,
                           lastUpdated, runs, requested>>
       ELSE LET nextBatch == (timerBatch + 1) % NumWindows(itemData[1])
                batchItems == getBatchItems(itemData[1], nextBatch)
            IN  /\ currentBatch' = nextBatch
                /\ timerBatch' = nextBatch
                /\ fetchAllPricesSeq(batchItems,
                                     [NoEv EXCEPT !.kind = "timer", !.prevBatch = currentBatch,
                                                  !.index = nextBatch])
    /\ UNCHANGED <<now, itemData, filteredItemData, cache, written, lastRecord, lastResponse>>

\* handleRefresh, reached through the button, disabled while loading is true
RefreshSeq ==
    /\ ~loading
    /\ IF itemData = <<>>
       THEN /\ ev' = [NoEv EXCEPT !.kind = "idle"]
            /\ UNCHANGED <<loading, error, priceData, lastUpdated, runs, requested>>
       ELSE fetchAllPricesSeq(getBatchItems(itemData[1], currentBatch),
                              [NoEv EXCEPT !.kind = "refresh", !.index = currentBatch])
    /\ UNCHANGED <<now, itemData, filteredItemData, currentBatch, timerBatch, nextTimer,
                   cache, written, lastRecord, lastResponse>>

\* the response to the request for id is in: with listings its record joins
\* prices; otherwise (fetch rejected, status not ok, no listings) nothing
\* does; the loop goes on
CompleteSeq(r, id, resp) ==
    /\ runs[r].pc = "dispatch"
    /\ id \in runs[r].inflight
    /\ LET rec == runs[r]
           prices == IF HasRecord(resp)
                     THEN Append(rec.prices, [id |-> id, name |-> NameOf(id),
                                              price |-> MinPrice(resp.listings)])
                     ELSE rec.prices
       IN  StepSeq(runs, r, [rec EXCEPT !.prices = prices, !.i = @ + 1, !.inflight = {}],
                   [NoEv EXCEPT !.kind = "response", !.run = r,
                                !.answers = {[id |-> id, kind |-> AnswerKind(resp)]}],
                   loading)
    /\ UNCHANGED <<now, itemData, filteredItemData, currentBatch, timerBatch, nextTimer,
                   error, cache, written, lastRecord, lastResponse>>

(***************************************************************************)
(* Time passes, once the load has settled (with the catalog or with the    *)
(* error).  setTimeout and setInterval promise that a callback runs no     *)
(* earlier than its delay, not that it runs on time: the clock may pass a  *)
(* deadline, and the callback (WakeRun, Timer) runs at or after it.        *)
(***************************************************************************)
Instants == {0, SLEEP_MS, TIMER_PERIOD - SLEEP_MS, TIMER_PERIOD}

Advance(t) ==
    /\ itemData # <<>> \/ error # NULL
    /\ t > now
    /\ now' = t
    /\ ev' = NoEv
    /\ UNCHANGED <<itemData, filteredItemData, currentBatch, timerBatch, nextTimer,
                   loading, error, priceData, lastUpdated, cache, runs, requested,
                   written, lastRecord, lastResponse>>

(***************************************************************************)
(* Initial state: the component is mounted, the load is under way.         *)
(* localStorage is as an earlier session left it: empty, or with, under    *)
(* the key of id 1, an unparseable string, an entry that has just expired, *)
(* or an entry that expires SLEEP_MS from now.                             *)
(***************************************************************************)
OldPayload == PayloadOf(1, <<2>>)

InitCaches ==
    {[id \in Ids |-> IF id = 1 THEN v ELSE NONE] :
        v \in {NONE, CORRUPT, Stringify(OldPayload, 0 - CACHE_DURATION),
               Stringify(OldPayload, SLEEP_MS - CACHE_DURATION)}}

\* item_id.txt
Catalogs == {1..MaxItems}

\* makebo_item_id.txt: up to a dispatch group and one id more
MakeboChoices == {1..n : n \in 0..(PARALLEL_BATCH_SIZE + 1)}

InitWith(stored) ==
    /\ now = 0
    /\ itemData = <<>>
    /\ filteredItemData = <<>>
    /\ currentBatch = 0
    /\ timerBatch = 0
    /\ nextTimer = TIMER_PERIOD
    /\ loading = FALSE
    /\ error = NULL
    /\ priceData = <<>>
    /\ lastUpdated = <<>>
    /\ cache = stored
    /\ runs = <<>>
    /\ requested = 0
    /\ written = [id \in Ids |-> IF Parses(cache[id]) THEN <<Parse(cache[id])>> ELSE <<>>]
    /\ lastRecord = [id \in Ids |-> <<>>]
    /\ lastResponse = [id \in Ids |-> <<>>]
    /\ ev = [NoEv EXCEPT !.kind = "init"]

Init == \E stored \in InitCaches : InitWith(stored)

(***************************************************************************)
(* App.js: single-item strategy.                                           *)
(***************************************************************************)
LoadOk ==
    \E c \in Catalogs, m \in MakeboChoices : m \subseteq c /\ Load(FALSE, c, m) /\ Capped
TimerTick == Len(runs) < MaxRuns /\ Timer(FALSE) /\ Capped
HandleRefresh == Len(runs) < MaxRuns /\ Refresh(FALSE) /\ Capped
Wake == \E r \in RunIds : WakeRun(FALSE, r) /\ Capped
Response == \E r \in RunIds, id \in Ids, resp \in Responses : Complete(r, id, resp)
Tick == \E t \in Instants : Advance(t)

Next == LoadOk \/ LoadFail \/ TimerTick \/ HandleRefresh \/ Wake \/ Response \/ Tick

Spec == Init /\ [][Next]_vars

(***************************************************************************)
(* part_000: bulk strategy.                                                *)
(***************************************************************************)
LoadOkBulk ==
    \E c \in Catalogs, m \in MakeboChoices : m \subseteq c /\ Load(TRUE, c, m) /\ Capped
TimerTickBulk == Len(runs) < MaxRuns /\ Timer(TRUE) /\ Capped
HandleRefreshBulk == Len(runs) < MaxRuns /\ Refresh(TRUE) /\ Capped
WakeBulk == \E r \in RunIds : WakeRun(TRUE, r) /\ Capped
ResponseBulk ==
    \E r \in RunIds : \E resp \in BulkResponses(runs[r].inflight) : CompleteBulk(r, resp)

NextBulk ==
    LoadOkBulk \/ LoadFail \/ TimerTickBulk \/ HandleRefreshBulk \/ WakeBulk
    \/ ResponseBulk \/ Tick

SpecBulk == Init /\ [][NextBulk]_vars

(***************************************************************************)
(* App.js, one run over a target of several dispatch groups, the clock     *)
(* read every SLEEP_MS: the earlier session has left valid entries for     *)
(* all the ids, or for all but one.                                        *)
(***************************************************************************)
\* the clock visits RateSteps instants SLEEP_MS apart
RateSteps == 4

RateInstants == {k * SLEEP_MS : k \in 0..RateSteps}

RateCaches ==
    {[id \in Ids |-> IF id \in S THEN Stringify(PayloadOf(id, <<2>>), 0 - SLEEP_MS) ELSE NONE]
     : S \in {Ids \ T : T \in {{}} \cup {{id} : id \in Ids}}}

InitRate == \E stored \in RateCaches : InitWith(stored)

LoadOkRate == Load(FALSE, 1..MaxItems, 1..MaxItems) /\ Capped
TickRate == \E t \in RateInstants : Advance(t)

NextRate == LoadOkRate \/ Wake \/ Response \/ TickRate

SpecRate == InitRate /\ [][NextRate]_vars

(***************************************************************************)
(* App.js over two periods of the interval: the first run and a run per    *)
(* tick, the clock read at the multiples of TIMER_PERIOD.                  *)
(***************************************************************************)
TimerInstants == {0, TIMER_PERIOD, 2 * TIMER_PERIOD}

TimerTickTwice == Len(runs) < MaxRuns + 1 /\ Timer(FALSE) /\ Capped
TickTimer == \E t \in TimerInstants : Advance(t)

NextTimer == LoadOk \/ TimerTickTwice \/ Wake \/ Response \/ TickTimer

SpecTimer == Init /\ [][NextTimer]_vars

(***************************************************************************)
(* App.js with every started run followed to its end: the first run over   *)
(* a target of two dispatch groups, whose first id has an unparseable      *)
(* cache entry, and the run of the first tick of the interval, over the    *)
(* second window of a catalog that ends two ids into that window.  The     *)
(* requests of a behaviour are bounded by its runs alone, the clock also   *)
(* reaches the end of every pause, and every response, every expired pause *)
(* and the clock get their turn (a request is answered or fails,           *)
(* setTimeout fires).                                                      *)
(***************************************************************************)
LiveCaches == {[id \in Ids |-> IF id = 1 THEN CORRUPT ELSE NONE]}

LiveResponses ==
    {[kind |-> "neterr", listings |-> <<>>], [kind |-> "ok", listings |-> <<2>>]}

LiveInstants == {0, TIMER_PERIOD}

InitLive == \E stored \in LiveCaches : InitWith(stored)

LoadOkLive == Load(FALSE, 1..(BATCH_SIZE + 2), 1..(PARALLEL_BATCH_SIZE + 1))
TimerTickLive == Len(runs) < MaxRuns /\ Timer(FALSE)
WakeLive == \E r \in RunIds : WakeRun(FALSE, r)
ResponseLive ==
    \E r \in RunIds, id \in Ids, resp \in LiveResponses : Complete(r, id, resp)
TickLive ==
    \E t \in LiveInstants \cup {runs[r].wake : r \in {x \in RunIds : runs[x].pc = "sleep"}} :
        Advance(t)

NextLive == LoadOkLive \/ TimerTickLive \/ WakeLive \/ ResponseLive \/ TickLive

SpecLive ==
    /\ InitLive /\ [][NextLive]_vars
    /\ WF_vars(WakeLive) /\ WF_vars(ResponseLive) /\ WF_vars(TickLive)

(***************************************************************************)
(* getBatchItems over every catalog drawn from the ids: once the catalog   *)
(* is loaded (with no id to fetch), its windows are taken one after the    *)
(* other, from window 0 to the last.                                       *)
(***************************************************************************)
WindowCatalogs == SUBSET Ids

LoadCatalog == \E c \in WindowCatalogs : Load(FALSE, c, {})

WindowStep ==
    /\ itemData # <<>>
    /\ LET k == IF ev.kind = "window" THEN ev.index + 1 ELSE 0
           window == Entries(getBatchItems(itemData[1], k))
       IN  /\ k < NumWindows(itemData[1])
           /\ ev' = [NoEv EXCEPT !.kind = "window", !.index = k, !.window = window,
                                 !.walked = (IF k = 0 THEN <<>> ELSE ev.walked) \o window]
    /\ UNCHANGED <<now, itemData, filteredItemData, currentBatch, timerBatch, nextTimer,
                   loading, error, priceData, lastUpdated, cache, runs, requested,
                   written, lastRecord, lastResponse>>

NextWindows == LoadCatalog \/ WindowStep

SpecWindows == Init /\ [][NextWindows]_vars

(***************************************************************************)
(* App.js over catalogs of one window and more, none of them empty: the    *)
(* first run has nothing to fetch, the interval ticks twice and the button *)
(* is pressed whenever it is enabled.                                      *)
(***************************************************************************)
IndexCatalogs == {1..n : n \in 1..MaxItems}

LoadOkIndex == \E c \in IndexCatalogs : Load(FALSE, c, {})
HandleRefreshIndex == Len(runs) < MaxRuns + 1 /\ Refresh(FALSE) /\ Capped
TickIndex ==
    \E t \in TimerInstants \cup {runs[r].wake : r \in {x \in RunIds : runs[x].pc = "sleep"}} :
        Advance(t)

NextIndex ==
    LoadOkIndex \/ TimerTickTwice \/ HandleRefreshIndex \/ Wake \/ ResponseLive
    \/ TickIndex

SpecIndex == InitLive /\ [][NextIndex]_vars

(***************************************************************************)
(* part_001 over catalogs of one, two and three windows whose last window  *)
(* holds a single id, the clock read at the multiples of the period of     *)
(* its interval: the first run, a run per tick, and a run for every press  *)
(* of the button.                                                          *)
(***************************************************************************)
SeqCatalogs == {1..(k * BATCH_SIZE + 1) : k \in 0..((MaxItems - 1) \div BATCH_SIZE)}

SeqInstants == {k * SEQ_TIMER_PERIOD : k \in 0..(MaxRuns + 1)}

InitSeq ==
    /\ now = 0
    /\ itemData = <<>>
    /\ filteredItemData = <<>>
    /\ currentBatch = 0
    /\ timerBatch = 0
    /\ nextTimer = SEQ_TIMER_PERIOD
    /\ loading = FALSE
    /\ error = NULL
    /\ priceData = <<>>
    /\ lastUpdated = <<>>
    /\ cache = [id \in Ids |-> NONE]
    /\ runs = <<>>
    /\ requested = 0
    /\ written = [id \in Ids |-> <<>>]
    /\ lastRecord = [id \in Ids |-> <<>>]
    /\ lastResponse = [id \in Ids |-> <<>>]
    /\ ev = [NoEv EXCEPT !.kind = "init"]

LoadOkSeq == \E c \in SeqCatalogs : LoadSeq(c)
TimerTickSeq == Len(runs) < MaxRuns + 2 /\ TimerSeq
HandleRefreshSeq == Len(runs) < MaxRuns + 2 /\ RefreshSeq
ResponseSeq == \E r \in RunIds, id \in Ids, resp \in LiveResponses : CompleteSeq(r, id, resp)
TickSeq == \E t \in SeqInstants : Advance(t)

NextSeq == LoadOkSeq \/ TimerTickSeq \/ HandleRefreshSeq \/ ResponseSeq \/ TickSeq

SpecSeq == InitSeq /\ [][NextSeq]_vars

(***************************************************************************)
(* Properties.                                                             *)
(***************************************************************************)
RECURSIVE InFlight(_)
InFlight(rs) ==
    IF rs = <<>> THEN 0 ELSE Cardinality(rs[1].inflight) + InFlight(Tail(rs))

ActiveRuns == {r \in RunIds : Active(r)}

\* C1: at most one run of fetchAllPrices is in progress at any time,
\* whichever trigger fires while a run is dispatching or pausing.
C1_OneRunAtATime == Cardinality(ActiveRuns) <= 1

\* C2: a read of an entry that cachePriceData wrote at time T returns the
\* payload as written and leaves the entry in place when now - T is under
\* CACHE_DURATION; from CACHE_DURATION on it returns null and the key is gone.
C2_CacheTTL ==
    \A e \in ev.reads :
        e.was # <<>> =>
            IF now - e.was[1].timestamp < CACHE_DURATION
            THEN /\ e.got.hit /\ ~e.got.threw
                 /\ e.got.ret = e.was[1].price
                 /\ cache[e.id] = e.entry
            ELSE /\ ~e.got.hit /\ ~e.got.threw
                 /\ e.got.ret = NULL
                 /\ cache[e.id] = NONE

\* C2 witness: an entry written in this session is read exactly
\* CACHE_DURATION after it was written, is reported as a miss and its key
\* is removed.
C2_Witness ==
    \E e \in ev.reads :
        /\ e.was # <<>>
        /\ e.was[1].timestamp >= 0
        /\ now - e.was[1].timestamp = CACHE_DURATION
        /\ cache[e.id] = NONE

\* C3: no request goes out for an id that has a valid cache entry, in the
\* single-item strategy and in the bulk strategy.
C3_CacheFirst == \A q \in ev.reqs : q.fresh = {}

\* C4 as claimed: a request for an id goes out no sooner than CACHE_DURATION
\* after the last response for that id, whatever that response was.
C4_IdempotentAnyOutcome ==
    \A q \in ev.reqs : \A id \in q.ids :
        lastResponse[id] = <<>> \/ now - lastResponse[id][1] >= CACHE_DURATION

\* C4 as amended: a request for an id goes out no sooner than CACHE_DURATION
\* after the last response for that id that produced a record.
C4_IdempotentAfterRecord ==
    \A q \in ev.reqs : \A id \in q.ids :
        lastRecord[id] = <<>> \/ now - lastRecord[id][1] >= CACHE_DURATION

\* C4 witness: an id whose fetch produced a record is resolved again within
\* CACHE_DURATION, from the cache and with no request.
C4_Witness ==
    \E e \in ev.reads :
        /\ lastRecord[e.id] # <<>>
        /\ now - lastRecord[e.id][1] < CACHE_DURATION
        /\ e.got.hit
        /\ \A q \in ev.reqs : e.id \notin q.ids

\* C5: when fetchPriceBatch returns, it returns one record for every id of
\* the group whose fetch neither failed nor came back without listings, and
\* the run goes on to its pause or to its end.
C5_ErrorContainment ==
    ev.drained =>
        /\ {rec.id : rec \in Range(ev.batch)} = Range(ev.group) \ (ev.failed \cup ev.empty)
        /\ Len(ev.batch) = Len(ev.group) - Cardinality(ev.failed \cup ev.empty)
        /\ runs[ev.run].pc \in {"sleep", "done"}

\* C5 witness: a group of two ids drains, the fetch of one failed, the
\* other gave its record.
C5_Witness ==
    /\ ev.drained
    /\ ev.kind = "response"
    /\ Len(ev.group) = 2
    /\ Cardinality(ev.failed) = 1
    /\ Len(ev.batch) = 1

\* C6: a read of an unparseable entry deletes the key and the id is asked
\* of the price service.
C6_CorruptIsMiss ==
    \A e \in ev.reads :
        e.entry = CORRUPT =>
            /\ cache[e.id] = NONE
            /\ \E q \in ev.reqs : e.id \in q.ids

\* C7: at most PARALLEL_BATCH_SIZE requests are in flight at any time.
C7_ConcurrencyCap == InFlight(runs) <= PARALLEL_BATCH_SIZE

\* C8: a run starts at most INTERVAL_CAP tasks in any QUEUE_INTERVAL ms,
\* counted over its dispatch groups.
C8_RateCap == ev.winStarts <= INTERVAL_CAP

\* C9: the published order does not depend on the order in which the
\* responses came: records of equal price stand in the order of the target.
C9_DeterministicOrder ==
    \A i, j \in 1..Len(priceData) :
        (i < j /\ priceData[i].price = priceData[j].price)
            => priceData[i].id < priceData[j].id

\* C10: a timer tick moves currentBatch on by one, modulo the number of
\* windows of the catalog.
C10_RoundRobin ==
    ev.kind = "timer" =>
        currentBatch = (ev.prevBatch + 1) % NumWindows(itemData[1])

\* C11: within a run, fetchPriceBatch returns only when none of its tasks is
\* pending, no task is pending during the pause, the tasks in flight are
\* those of the current group, and the next group is dispatched only from
\* the pause that follows the drain of the group before it.
C11_SequentialBatches ==
    /\ [](/\ ev.drained => ev.pending = {}
          /\ \A r \in RunIds :
                /\ runs[r].pc = "sleep" => runs[r].inflight = {}
                /\ runs[r].inflight \subseteq Range(GroupOf(runs[r])))
    /\ [][\A r \in RunIds :
            runs'[r].i > runs[r].i =>
                /\ runs[r].pc = "sleep"
                /\ runs[r].inflight = {}
                /\ runs'[r].i = runs[r].i + 1]_vars

\* C11 witness: the second group of a run has been dispatched and waits for
\* its responses, the first group having drained with a record.
C11_Witness ==
    /\ ev.kind = "wake"
    /\ runs[ev.run].pc = "dispatch"
    /\ runs[ev.run].i = 1
    /\ runs[ev.run].inflight # {}
    /\ runs[ev.run].prices # <<>>

\* C12: after a non-2xx response, or a response without listings for an id,
\* no record of the id is pushed to the results and the cache holds no entry
\* for the id.
C12_NoRecordNotCached ==
    \A a \in ev.answers :
        a.kind \in {"http", "empty"} =>
            /\ a.id \notin ev.pushed
            /\ cache[a.id] = NONE

C14_OnlyLoadFails ==
    /\ error # NULL => itemData = <<>> /\ runs = <<>>
    /\ ev.drained =>
        /\ error = NULL
        /\ IF ev.last
           THEN /\ ev.published
                /\ runs[ev.run].pc = "done"
                /\ lastUpdated = <<ToLocaleString(now)>>
                /\ ~loading
           ELSE runs[ev.run].pc = "sleep"

\* C14 witness: the fetches of both ids of the last group of a run came to
\* nothing, and the run has published its snapshot.
C14_Witness ==
    /\ ev.kind = "response"
    /\ ev.drained /\ ev.last /\ ev.published
    /\ Len(ev.group) = 2
    /\ ev.failed # {} /\ ev.empty # {}
    /\ error = NULL

\* C15: the snapshot changes only in a step that publishes; a run publishes
\* only when its last group has drained with no task pending, and then
\* priceData is the sorted whole of what the run collected and lastUpdated
\* is the time of that same step, so that prices and lastUpdated are always
\* those of one and the same run.
C15_AtomicSnapshot ==
    /\ [][(priceData' # priceData \/ lastUpdated' # lastUpdated) => ev'.published]_vars
    /\ [](ev.published =>
            /\ ev.drained => (ev.last /\ ev.pending = {})
            /\ ~ev.drained => ev.sent = <<>>
            /\ priceData = SortDesc(ev.collected)
            /\ lastUpdated = <<ToLocaleString(now)>>)

\* C15 witness: a second run publishes, after its second group, a snapshot
\* of three records in place of the snapshot of the first run.
C15_Witness ==
    /\ ev.published /\ ev.drained
    /\ ev.run = 2
    /\ ev.idx = 1
    /\ Len(priceData) = 3

\* C16: loading is true in every state in which some run is dispatching or
\* pausing.
C16_BusyIndicator == ActiveRuns # {} => loading

\* C17: every run that has been started comes to its end, whatever other
\* runs are started meanwhile, and the step that ends a run publishes the
\* snapshot of that run and sets loading to false.
C17_RunsTerminate ==
    /\ \A r \in 1..MaxRuns :
            (Len(runs) >= r) ~> (Len(runs) >= r /\ runs[r].pc = "done")
    /\ [][\A r \in DOMAIN runs' :
            (runs'[r].pc = "done" /\ (r > Len(runs) \/ runs[r].pc # "done"))
                => (ev'.run = r /\ ev'.published /\ ~loading')]_vars

\* C17 witness: the first run publishes after the pause and its second
\* group, a second run having been started in the meantime.
C17_Witness ==
    /\ Len(runs) = 2
    /\ ev.run = 1 /\ ev.published /\ ev.drained
    /\ ev.idx = 1
    /\ ev.kind = "response"

\* C18: window k of a catalog is the contiguous piece of its entries from
\* k * BATCH_SIZE on, in their order, BATCH_SIZE long except for the last
\* window, which holds what is left and at least one entry; the windows up
\* to k, one after the other, are the entries up to the end of window k
\* with none twice, and with the last window they are the whole catalog.
C18_PartitionCoverage ==
    ev.kind = "window" =>
        LET C == Entries(itemData[1])
            k == ev.index
            n == NumWindows(itemData[1])
            upto == Min((k + 1) * BATCH_SIZE, Len(C))
        IN  /\ ev.window = SubSeq(C, k * BATCH_SIZE + 1, upto)
            /\ Len(ev.window) = IF k < n - 1 THEN BATCH_SIZE ELSE Len(C) - k * BATCH_SIZE
            /\ Len(ev.window) >= 1
            /\ ev.walked = SubSeq(C, 1, upto)
            /\ Cardinality(Range(ev.walked)) = Len(ev.walked)
            /\ k = n - 1 => ev.walked = C

\* C18 witness: the last window of a catalog of several windows has been
\* taken, and it is shorter than BATCH_SIZE.
C18_Witness ==
    /\ ev.kind = "window"
    /\ ev.index >= 1
    /\ ev.index = NumWindows(itemData[1]) - 1
    /\ Len(ev.window) < BATCH_SIZE
    /\ Range(ev.walked) = itemData[1]

\* C19: the group a step dispatches holds at most PARALLEL_BATCH_SIZE ids,
\* is the next contiguous piece of the target of the run in its order, and
\* holds no id that an earlier group of the run handed to a task; the cache
\* reads and the requests of the step are for ids of that group; and when
\* the last group has drained, the ids handed to tasks are exactly the ids
\* of the target.
C19_OneGroupPerId ==
    LET entries == IF ev.drained THEN ev.target ELSE runs[ev.run].entries
        i == IF ev.drained THEN ev.idx ELSE runs[ev.run].i
        tasked == IF ev.drained THEN ev.tasked ELSE runs[ev.run].tasked
        upto == Min((i + 1) * PARALLEL_BATCH_SIZE, Len(entries))
    IN  /\ ev.sent # <<>> =>
            /\ ev.again = {}
            /\ Len(ev.sent) <= PARALLEL_BATCH_SIZE
            /\ ev.sent = SubSeq(entries, i * PARALLEL_BATCH_SIZE + 1, upto)
            /\ tasked = Range(SubSeq(entries, 1, upto))
            /\ \A e \in ev.reads : e.id \in Range(ev.sent)
            /\ \A q \in ev.reqs : q.ids \subseteq Range(ev.sent)
        /\ (ev.drained /\ ev.last) => ev.tasked = Range(ev.target)
        /\ \A r \in RunIds : runs[r].inflight \subseteq runs[r].tasked

\* C19 witness: the last of at least three groups of a run has been
\* dispatched and has drained, every id of the target handed to a task.
C19_Witness ==
    /\ ev.sent # <<>>
    /\ ev.drained /\ ev.last
    /\ ev.idx >= 2
    /\ ev.tasked = Range(ev.target)
    /\ Len(ev.target) > 2 * PARALLEL_BATCH_SIZE

\* C20: the sequence a run publishes is non-increasing in price and holds
\* each record that the resolutions of the run produced (from the cache or
\* from a response) exactly once, and nothing else.
C20_SortCorrectness ==
    ev.published =>
        /\ \A k \in 1..(Len(priceData) - 1) : priceData[k].price >= priceData[k + 1].price
        /\ Range(priceData) = ev.got
        /\ Len(priceData) = Cardinality(ev.got)

\* C20 witness: a run publishes three records of two different prices, in
\* another order than it collected them.
C20_Witness ==
    /\ ev.published
    /\ Len(priceData) = 3
    /\ priceData[1].price > priceData[3].price
    /\ priceData # ev.collected

\* C21: when the task of a bulk request has its response, a 2xx body in
\* hand, the records it adds are, in the order of the requested ids, one for
\* each requested id that the body holds with at least one listing, with
\* the least pricePerUnit of the listings as price and their number as
\* listingsCount, and no error is raised.
C21_BulkResolution ==
    (ev.body # <<>> /\ ev.body[1].kind \in {"ok", "one"}) =>
        LET resp == ev.body[1]
            Present(id) == id \in DOMAIN resp.items /\ Len(resp.items[id]) > 0
            found == SelectSeq(ev.group, Present)
        IN  /\ ev.failed = {}
            /\ Len(ev.batch) = Len(found)
            /\ \A k \in 1..Len(found) :
                    /\ ev.batch[k].id = found[k]
                    /\ ev.batch[k].price = SetMin(Range(resp.items[found[k]]))
                    /\ ev.batch[k].listingsCount = Len(resp.items[found[k]])

\* C22: the step that ends the last run still in progress publishes the
\* snapshot of the run that was started last.
C22_LastStartedWins ==
    (ev.published /\ \A r \in RunIds : runs[r].pc = "done") => ev.run = Len(runs)

\* C23: once a catalog that is not empty is loaded, currentBatch is the index
\* of one of its windows, 0 .. NumWindows - 1, whatever ticks of the timer
\* and presses of the button have happened, and every index a tick or a
\* press hands to getBatchItems is such an index.
C23_IndexInRange ==
    (itemData # <<>> /\ itemData[1] # {}) =>
        LET last == NumWindows(itemData[1]) - 1
        IN  /\ currentBatch \in 0..last
            /\ ev.kind \in {"timer", "refresh"} => ev.index \in 0..last

\* C23 witness: over a catalog of a single window, a tick of the timer that
\* follows two earlier runs has asked getBatchItems for window 0 once more.
C23_Witness ==
    /\ ev.kind = "timer"
    /\ ev.run = 3
    /\ itemData # <<>> /\ NumWindows(itemData[1]) = 1
    /\ ev.index = 0 /\ currentBatch = 0
    /\ ev.sent # <<>>

\* C24: a step changes the stored entry of an id only by the read of that id
\* that found it expired (the key is removed) or by the task that got a
\* record for that id (the key is written); the ids a response writes are
\* ids of the dispatch group of its run, the ids a dispatch removes are ids
\* of the group it dispatches, every other entry, payload and timestamp,
\* stays as it is, and so does the entry a cache hit has read.
C24_CacheFrame ==
    [][LET touched == {id \in Ids : cache'[id] # cache[id]}
           removed == {rd.id : rd \in {x \in ev'.reads : x.got.removed}}
           recorded == {a.id : a \in {x \in ev'.answers : x.kind = "record"}}
       IN  /\ touched \subseteq removed \cup recorded
           /\ removed \subseteq Range(ev'.sent)
           /\ \A id \in removed : cache'[id] = NONE
           /\ ev'.kind = "response" =>
                  /\ removed = {}
                  /\ recorded \subseteq Range(GroupOf(runs[ev'.run]))
           /\ \A rd \in ev'.reads :
                  rd.got.hit => cache[rd.id] = rd.entry /\ cache'[rd.id] = rd.entry
      ]_vars

\* C24 witness: the response that drains a group has written the entry of
\* an id of the group while the entry of an id outside the group is stored.
C24_Witness ==
    /\ ev.kind = "response" /\ ev.drained
    /\ \E a \in ev.answers, other \in Ids :
          /\ a.kind = "record"
          /\ other \notin Range(ev.group)
          /\ cache[other] # NONE

====
